---------------------------- MODULE Spec2Model ----------------------------
(***************************************************************************)
(* A state-machine model of src/server.js: the per-device WebSocket audio  *)
(* sessions, the two transcription back ends (Deepgram live streaming and  *)
(* AssemblyAI timer-driven buffered flushes), trigger-word detection and   *)
(* the in-memory result mailbox consumed by the polling and heartbeat      *)
(* endpoints.                                                              *)
(*                                                                         *)
(* Node runs every handler to completion on one thread, so one action is   *)
(* one handler run up to its first await; the code after an await is a     *)
(* separate action that fires when the awaited provider call settles.      *)
(*                                                                         *)
(* Strings are sequences of one-character strings.                         *)
(***************************************************************************)
EXTENDS Integers, Sequences, FiniteSets, TLC

(***************************************************************************)
(* Bounds.  The handlers themselves are unbounded; each specification      *)
(* bounds the run in its next-state relation.                              *)
(***************************************************************************)
\* SpecSession: connections accepted, binary frames received on one
\* connection, results written to the mailbox, frames a streaming session
\* sends back to its device
MaxSessions == 2
MaxFrames == 2
MaxWrites == 2
MaxOutbox == 1
\* SpecMailbox: frames, mailbox writes and frames sent back, as above
MailboxFrames == 1
MailboxWrites == 2
MailboxOutbox == 1
\* SpecBuffered: frames on one connection, mailbox writes
BufferedFrames == 3
BufferedWrites == 2
\* SpecSimilarity: the length of the strings compared
MaxStringLen == 3
\* SpecHttp: mailbox writes
HttpWrites == 2
\* SpecOutbound: frames on the connection, mailbox writes, frames sent back
OutboundFrames == 2
OutboundWrites == 2
OutboundOutbox == 2
\* SpecLifecycle: connections accepted, binary frames on one connection
LifecycleSessions == 2
LifecycleFrames == 1

(***************************************************************************)
(* String helpers: what the JavaScript string methods used by the code do. *)
(***************************************************************************)
UpperChars == <<"A","B","C","D","E","F","G","H","I","J","K","L","M",
                "N","O","P","Q","R","S","T","U","V","W","X","Y","Z">>
LowerChars == <<"a","b","c","d","e","f","g","h","i","j","k","l","m",
                "n","o","p","q","r","s","t","u","v","w","x","y","z">>

\* String.prototype.toLowerCase on one character
LowerChar(c) ==
  IF \E i \in 1..Len(UpperChars) : UpperChars[i] = c
  THEN LowerChars[CHOOSE i \in 1..Len(UpperChars) : UpperChars[i] = c]
  ELSE c

\* String.prototype.toLowerCase
toLowerCase(str) == [i \in 1..Len(str) |-> LowerChar(str[i])]

\* the characters \s and trim() treat as white space (those the model uses)
IsSpace(c) == c \in {" ", "\t", "\n"}

\* String.prototype.trim
trim(str) ==
  LET keep == {i \in 1..Len(str) : ~IsSpace(str[i])}
  IN  IF keep = {} THEN <<>>
      ELSE LET lo == CHOOSE i \in keep : \A j \in keep : i <= j
               hi == CHOOSE i \in keep : \A j \in keep : j <= i
           IN  SubSeq(str, lo, hi)

\* String.prototype.includes
includes(str, sub) ==
  \E i \in 1..(Len(str) - Len(sub) + 1) : SubSeq(str, i, i + Len(sub) - 1) = sub

\* String.prototype.split(/\s+/): the pieces between maximal runs of white
\* space, with an empty piece before a leading and after a trailing run
RECURSIVE splitFrom(_, _, _)
splitFrom(str, i, cur) ==
  IF i > Len(str) THEN <<cur>>
  ELSE IF IsSpace(str[i])
       THEN IF i > 1 /\ IsSpace(str[i - 1])
            THEN splitFrom(str, i + 1, cur)
            ELSE <<cur>> \o splitFrom(str, i + 1, <<>>)
       ELSE splitFrom(str, i + 1, Append(cur, str[i]))

splitWords(str) == splitFrom(str, 1, <<>>)

(***************************************************************************)
(* Similarity matcher                                                      *)
(***************************************************************************)
\* getBigrams: the 2-character substrings, in order
getBigrams(str) ==
  [i \in 1..(IF Len(str) >= 2 THEN Len(str) - 1 ELSE 0) |-> <<str[i], str[i + 1]>>]

\* intersectionLength counting the distinct common bigrams
intersectionLengthDistinct(bigrams1, bigrams2) ==
  Cardinality({bigrams1[i] : i \in {k \in 1..Len(bigrams1) :
                 \E j \in 1..Len(bigrams2) : bigrams2[j] = bigrams1[k]}})

\* bigrams1.filter(bigram => bigrams2.includes(bigram)).length
intersectionLength(bigrams1, bigrams2) ==
  Cardinality({i \in 1..Len(bigrams1) :
                 \E j \in 1..Len(bigrams2) : bigrams2[j] = bigrams1[i]})

\* calculateSimilarity: the quotient (2.0 * intersection.length) /
\* (bigrams1.length + bigrams2.length) kept as numerator and denominator;
\* den = 0 is the NaN of 0/0
calculateSimilarity(str1, str2) ==
  LET bigrams1 == getBigrams(str1)
      bigrams2 == getBigrams(str2)
  IN  [num |-> 2 * intersectionLength(bigrams1, bigrams2),
       den |-> Len(bigrams1) + Len(bigrams2)]

\* similarity > 0.8 (false for NaN)
SimilarityAbove80(sim) == sim.den > 0 /\ 10 * sim.num > 8 * sim.den

\* SimilarityAtLeast70 with a threshold of 0.5
SimilarityAtLeast50(sim) == sim.den > 0 /\ 10 * sim.num >= 5 * sim.den

\* similarity >= 0.7 (false for NaN)
SimilarityAtLeast70(sim) == sim.den > 0 /\ 10 * sim.num >= 7 * sim.den

\* (similarity * 100).toFixed(0)
SimilarityPercent(sim) == (200 * sim.num + sim.den) \div (2 * sim.den)

(***************************************************************************)
(* Trigger detection                                                       *)
(***************************************************************************)
\* checkTriggerWords: the session path's decision
checkTriggerWords(words, transcript) ==
  LET lowerTranscript == toLowerCase(transcript)
  IN  \E k \in 1..Len(words) :
        \/ includes(lowerTranscript, words[k])
        \/ SimilarityAbove80(calculateSimilarity(lowerTranscript, words[k]))

\* first index of seq satisfying Test, 0 if none
FirstIndex(seq, Test(_)) ==
  IF \E i \in 1..Len(seq) : Test(seq[i])
  THEN CHOOSE i \in 1..Len(seq) : Test(seq[i]) /\ \A j \in 1..(i - 1) : ~Test(seq[j])
  ELSE 0

\* DescriptorsFor without its first method (the exact match and its continue)
DescriptorsForNoExact(triggerWord, transcriptLower, transcriptWords) ==
  LET trimmedTrigger == toLowerCase(trim(triggerWord))
      Partial(word) == /\ includes(word, trimmedTrigger) \/ includes(trimmedTrigger, word)
                       /\ Len(word) >= 2 /\ Len(trimmedTrigger) >= 2
      Fuzzy(word) == /\ Len(word) >= 3 /\ Len(trimmedTrigger) >= 3
                     /\ SimilarityAtLeast70(calculateSimilarity(word, trimmedTrigger))
      p == FirstIndex(transcriptWords, Partial)
      f == FirstIndex(transcriptWords, Fuzzy)
  IN  (IF p = 0 THEN <<>>
       ELSE << [kind |-> "matched", trigger |-> trimmedTrigger,
                word |-> transcriptWords[p]] >>)
      \o
      (IF f = 0 THEN <<>>
       ELSE << [kind |-> "fuzzy", trigger |-> trimmedTrigger,
                word |-> transcriptWords[f],
                percent |-> SimilarityPercent(
                              calculateSimilarity(transcriptWords[f], trimmedTrigger))] >>)

\* DescriptorsFor without the continue of its first method
DescriptorsForNoContinue(triggerWord, transcriptLower, transcriptWords) ==
  LET trimmedTrigger == toLowerCase(trim(triggerWord))
      Partial(word) == /\ includes(word, trimmedTrigger) \/ includes(trimmedTrigger, word)
                       /\ Len(word) >= 2 /\ Len(trimmedTrigger) >= 2
      Fuzzy(word) == /\ Len(word) >= 3 /\ Len(trimmedTrigger) >= 3
                     /\ SimilarityAtLeast70(calculateSimilarity(word, trimmedTrigger))
      p == FirstIndex(transcriptWords, Partial)
      f == FirstIndex(transcriptWords, Fuzzy)
  IN  (IF includes(transcriptLower, trimmedTrigger)
       THEN << [kind |-> "exact", trigger |-> trimmedTrigger] >>
       ELSE <<>>)
      \o
      (IF p = 0 THEN <<>>
       ELSE << [kind |-> "matched", trigger |-> trimmedTrigger,
                word |-> transcriptWords[p]] >>)
      \o
      (IF f = 0 THEN <<>>
       ELSE << [kind |-> "fuzzy", trigger |-> trimmedTrigger,
                word |-> transcriptWords[f],
                percent |-> SimilarityPercent(
                              calculateSimilarity(transcriptWords[f], trimmedTrigger))] >>)

\* DescriptorsFor with its third method run only when the second found nothing
DescriptorsForExclusive(triggerWord, transcriptLower, transcriptWords) ==
  LET trimmedTrigger == toLowerCase(trim(triggerWord))
      Partial(word) == /\ includes(word, trimmedTrigger) \/ includes(trimmedTrigger, word)
                       /\ Len(word) >= 2 /\ Len(trimmedTrigger) >= 2
      Fuzzy(word) == /\ Len(word) >= 3 /\ Len(trimmedTrigger) >= 3
                     /\ SimilarityAtLeast70(calculateSimilarity(word, trimmedTrigger))
      p == FirstIndex(transcriptWords, Partial)
      f == FirstIndex(transcriptWords, Fuzzy)
  IN  IF includes(transcriptLower, trimmedTrigger)
      THEN << [kind |-> "exact", trigger |-> trimmedTrigger] >>
      ELSE IF p # 0
      THEN << [kind |-> "matched", trigger |-> trimmedTrigger,
               word |-> transcriptWords[p]] >>
      ELSE IF f # 0
      THEN << [kind |-> "fuzzy", trigger |-> trimmedTrigger,
               word |-> transcriptWords[f],
               percent |-> SimilarityPercent(
                             calculateSimilarity(transcriptWords[f], trimmedTrigger))] >>
      ELSE <<>>

\* the descriptors one trigger word pushes in POST /api/process-audio
DescriptorsFor(triggerWord, transcriptLower, transcriptWords) ==
  LET trimmedTrigger == toLowerCase(trim(triggerWord))
      Partial(word) == /\ includes(word, trimmedTrigger) \/ includes(trimmedTrigger, word)
                       /\ Len(word) >= 2 /\ Len(trimmedTrigger) >= 2
      Fuzzy(word) == /\ Len(word) >= 3 /\ Len(trimmedTrigger) >= 3
                     /\ SimilarityAtLeast70(calculateSimilarity(word, trimmedTrigger))
      p == FirstIndex(transcriptWords, Partial)
      f == FirstIndex(transcriptWords, Fuzzy)
  IN  IF includes(transcriptLower, trimmedTrigger)
      THEN << [kind |-> "exact", trigger |-> trimmedTrigger] >>
      ELSE (IF p = 0 THEN <<>>
            ELSE << [kind |-> "matched", trigger |-> trimmedTrigger,
                     word |-> transcriptWords[p]] >>)
           \o
           (IF f = 0 THEN <<>>
            ELSE << [kind |-> "fuzzy", trigger |-> trimmedTrigger,
                     word |-> transcriptWords[f],
                     percent |-> SimilarityPercent(
                                   calculateSimilarity(transcriptWords[f], trimmedTrigger))] >>)

\* the triggeredWords array built by POST /api/process-audio
RECURSIVE detectFrom(_, _, _, _)
detectFrom(words, k, transcriptLower, transcriptWords) ==
  IF k > Len(words) THEN <<>>
  ELSE DescriptorsFor(words[k], transcriptLower, transcriptWords)
       \o detectFrom(words, k + 1, transcriptLower, transcriptWords)

detectTriggerWords(words, transcript) ==
  LET transcriptLower == toLowerCase(transcript)
  IN  detectFrom(words, 1, transcriptLower, splitWords(transcriptLower))

(***************************************************************************)
(* Configuration and inputs                                                *)
(***************************************************************************)
Devices == {"d1", "d2"}

\* the default of TRIGGER_WORDS: 'alarm,emergency,help,fire' lower-cased and
\* split at the commas
DefaultTriggerWords ==
  << <<"a","l","a","r","m">>,
     <<"e","m","e","r","g","e","n","c","y">>,
     <<"h","e","l","p">>,
     <<"f","i","r","e">> >>

\* what a provider may answer: text and confidence (in percent)
ProviderResults ==
  { [text |-> <<"F","i","r","e","!">>, confidence |-> 95],
    [text |-> <<"h","i">>, confidence |-> 90],
    [text |-> <<" ">>, confidence |-> 0],
    [text |-> <<>>, confidence |-> 0] }

\* String.prototype.split(','): the pieces between the commas
RECURSIVE splitCommaFrom(_, _, _)
splitCommaFrom(str, i, cur) ==
  IF i > Len(str) THEN <<cur>>
  ELSE IF str[i] = ","
       THEN <<cur>> \o splitCommaFrom(str, i + 1, <<>>)
       ELSE splitCommaFrom(str, i + 1, Append(cur, str[i]))

\* the start-up value of TRIGGER_WORDS for a non-empty TRIGGER_WORDS variable
\* of the environment: lower-cased and split at the commas, nothing trimmed
StartupTriggerWords(env) == splitCommaFrom(toLowerCase(env), 1, <<>>)

\* values of the TRIGGER_WORDS environment variable: a trailing comma, a
\* blank before a comma, and the one-word lists of the detection examples
EnvTriggerWords ==
  { <<"F","i","r","e",",">>,
    <<" ",",","h","e","l","p">>,
    <<"a","l","a","r","m">>,
    <<"h","e","l","p">> }

\* the trigger word lists the runs configure
TriggerWordLists ==
  {DefaultTriggerWords} \cup {StartupTriggerWords(env) : env \in EnvTriggerWords}

ProviderTexts == {r.text : r \in ProviderResults}

\* an element of the words array of an update request: a string, or a value
\* without toLowerCase (a number, null)
StringElement(str) == [isString |-> TRUE, value |-> str]
NonString == [isString |-> FALSE, value |-> <<>>]

\* the bodies of the requests to POST /api/config/trigger-words: without
\* words, with words that is no array, with an array of strings ([" Help "]
\* and []), and with an array holding a non-string (["fire", 5])
UpdateBodies ==
  { [kind |-> "missing", words |-> <<>>],
    [kind |-> "notArray", words |-> <<>>],
    [kind |-> "array", words |-> << StringElement(<<" ","H","e","l","p"," ">>) >>],
    [kind |-> "array", words |-> <<>>],
    [kind |-> "array", words |-> << StringElement(<<"f","i","r","e">>), NonString >>] }

\* words.map(w => w.toLowerCase().trim()) on an array of strings
MappedWords(words) == [i \in 1..Len(words) |-> trim(toLowerCase(words[i].value))]

\* the trigger word lists a run can hold: those of start-up, those the
\* updates install, and the emptied list
ConfiguredWordLists ==
  TriggerWordLists \cup {<<>>}
    \cup {MappedWords(b.words) :
            b \in {u \in UpdateBodies :
                     u.kind = "array" /\ \A i \in 1..Len(u.words) : u.words[i].isString}}

\* checkTriggerWords and the detection of POST /api/process-audio, tabulated
\* over the word lists and texts of the model
checkTriggerWordsTable ==
  [w \in ConfiguredWordLists |-> [t \in ProviderTexts |-> checkTriggerWords(w, t)]]

detectTriggerWordsTable ==
  [w \in ConfiguredWordLists |-> [t \in ProviderTexts |-> detectTriggerWords(w, t)]]

(***************************************************************************)
(* State.  A session is one run of the wss 'connection' handler: session s *)
(* is the s-th connection accepted, and the per-session variables are      *)
(* sequences indexed by s (the locals of the handler's closure, and the    *)
(* connection's own state).                                                *)
(***************************************************************************)
VARIABLES
  SPEECH_API,          \* "deepgram" or "assemblyai", fixed at start-up
  TRIGGER_WORDS,       \* the configured trigger words
  deviceResults,       \* the result mailbox: a map deviceId -> result
  deviceConnections,   \* the session registry: a map deviceId -> session
  wsDeviceId,          \* per session: the deviceId of its URL
  readyState,          \* per session: ws.readyState
  audioBuffer,         \* per session: the accumulator of the buffered variant
  deepgramConnection,  \* per session: "null", or the state of the live channel
  processingInterval,  \* per session: whether the flush timer is armed
  received,            \* per session: binary frames received so far
  dgSent,              \* per session: frames passed to deepgramConnection.send
  calls,               \* per session: its assemblyai.transcripts.transcribe
                       \* calls, in start order
  outbox,              \* per session: frames sent with ws.send
  writes,              \* history: the deviceId of every mailbox write, in
                       \* order; the n-th write carries timestamp n
  calc,                \* one record: the computations studied on their own
                       \* (their arguments and what they returned), and
                       \* whether the HTTP server accepts connections
  pending,             \* history: per device, the stamp of the last result set
                       \* and neither read nor cleared since, 0 if none
  deliveries,          \* history: per stamp, the responses that carried it
  lastEvent            \* history: what the last handler run reported

vars == << SPEECH_API, TRIGGER_WORDS, deviceResults, deviceConnections,
           wsDeviceId, readyState, audioBuffer, deepgramConnection,
           processingInterval, received, dgSent, calls, outbox,
           writes, pending, deliveries, lastEvent, calc >>

\* the arguments of a call of calculateSimilarity, and what it returned
str1 == calc.str1
str2 == calc.str2
similarity == calc.similarity
\* a transcript given to trigger detection, what checkTriggerWords returned
\* for it, and the triggeredWords POST /api/process-audio built for it
transcript == calc.transcript
sessionTriggered == calc.sessionTriggered
uploadTriggeredWords == calc.uploadTriggeredWords
\* which of these computations have returned
returned == calc.returned
\* server.listening: true from start-up until shutdown calls server.close()
listening == calc.listening

sessionVars == << wsDeviceId, readyState, audioBuffer, deepgramConnection,
                  processingInterval, received, dgSent >>

mailboxVars == << deviceResults, writes, pending, deliveries >>

\* the sessions so far
Sessions == DOMAIN wsDeviceId

(***************************************************************************)
(* Map helpers (JavaScript Map)                                            *)
(***************************************************************************)
MapHas(m, k) == k \in DOMAIN m

MapSet(m, k, v) == [x \in (DOMAIN m) \cup {k} |-> IF x = k THEN v ELSE m[x]]

MapDelete(m, k) == [x \in (DOMAIN m) \ {k} |-> m[x]]

EmptyMap == [x \in {} |-> 0]

\* new Date() at the next mailbox write: the clock advances at every write
Now == Len(writes) + 1

\* lastEvent: what the last handler run reported, for the handlers whose run
\* cannot be read off the rest of the state (a consuming read, a clear, a
\* rejected request, a run of the timer callback, a transcript handled by a
\* session); Quiet after any other.
\* A consuming read reports the stamp it returned (0: absent) and the stamp that
\* was pending.
Quiet == [type |-> "quiet"]
Event(type, who) == [type |-> type, who |-> who]
TakeEvent(type, who, stamp, expected) ==
  [type |-> type, who |-> who, stamp |-> stamp, expected |-> expected]
\* session s has handled the transcript r of its back end
TranscriptEvent(s, r) ==
  [type |-> "transcript", who |-> s, text |-> r.text, confidence |-> r.confidence]

\* no computation is studied on its own, and the server listens
NoCalc ==
  [str1 |-> <<>>, str2 |-> <<>>, similarity |-> [num |-> 0, den |-> 0],
   transcript |-> <<>>, sessionTriggered |-> FALSE,
   uploadTriggeredWords |-> <<>>, returned |-> {}, listening |-> TRUE]

InitCalc == calc = NoCalc

\* the state of the server at start-up but for TRIGGER_WORDS
InitState ==
  /\ SPEECH_API \in {"deepgram", "assemblyai"}
  /\ deviceResults = EmptyMap
  /\ deviceConnections = EmptyMap
  /\ wsDeviceId = <<>>
  /\ readyState = <<>>
  /\ audioBuffer = <<>>
  /\ deepgramConnection = <<>>
  /\ processingInterval = <<>>
  /\ received = <<>>
  /\ dgSent = <<>>
  /\ calls = <<>>
  /\ outbox = <<>>
  /\ writes = <<>>
  /\ pending = [d \in Devices |-> 0]
  /\ deliveries = <<>>
  /\ lastEvent = Quiet

\* start-up without a TRIGGER_WORDS variable in the environment
Init == TRIGGER_WORDS = DefaultTriggerWords /\ InitState /\ InitCalc

\* start-up with or without one
InitConfigured == TRIGGER_WORDS \in TriggerWordLists /\ InitState /\ InitCalc

(***************************************************************************)
(* wss.on('connection')                                                    *)
(***************************************************************************)
Connect(d) ==
  /\ listening
  /\ wsDeviceId' = Append(wsDeviceId, d)
  /\ readyState' = Append(readyState, "OPEN")
  /\ audioBuffer' = Append(audioBuffer, <<>>)
  /\ deviceConnections' = MapSet(deviceConnections, d, Len(wsDeviceId) + 1)
  /\ deepgramConnection' =
       Append(deepgramConnection,
              IF SPEECH_API = "deepgram" THEN "connecting" ELSE "null")
  /\ processingInterval' = Append(processingInterval, SPEECH_API = "assemblyai")
  /\ received' = Append(received, 0)
  /\ dgSent' = Append(dgSent, <<>>)
  /\ calls' = Append(calls, <<>>)
  /\ outbox' = Append(outbox, <<>>)
  /\ lastEvent' = Quiet
  /\ UNCHANGED << calc, SPEECH_API, TRIGGER_WORDS, mailboxVars >>

(***************************************************************************)
(* The transcript handling shared, as duplicated code, by the Deepgram     *)
(* Transcript handler and processAssemblyAIBuffer: what it writes to the   *)
(* mailbox and what it sends on the session's connection.                  *)
(***************************************************************************)
\* text is truthy and text.trim().length > 0
NonBlank(text) == Len(text) > 0 /\ Len(trim(text)) > 0

SessionResult(text, confidence) ==
  [triggered |-> TRUE, transcription |-> text, confidence |-> confidence,
   timestamp |-> Now]

AlarmFrame(text, confidence) ==
  [command |-> "ALARM", transcription |-> text, confidence |-> confidence]

TranscriptionFrame(text, confidence) ==
  [type |-> "transcription", transcription |-> text, confidence |-> confidence]

\* deviceResults.set(d, result), with its trace in the history
MailboxSet(d, result) ==
  /\ deviceResults' = MapSet(deviceResults, d, result)
  /\ writes' = Append(writes, d)
  /\ deliveries' = Append(deliveries, 0)
  /\ pending' = [pending EXCEPT ![d] = Now]

\* HandleTranscript without the tests of ws.readyState before ws.send
HandleTranscriptUnguarded(s, text, confidence) ==
  LET d == wsDeviceId[s]
      triggered == checkTriggerWordsTable[TRIGGER_WORDS][text]
  IN  IF ~NonBlank(text)
      THEN UNCHANGED << mailboxVars, outbox >>
      ELSE IF triggered
      THEN /\ MailboxSet(d, SessionResult(text, confidence))
           /\ outbox' = [outbox EXCEPT ![s] = Append(@, AlarmFrame(text, confidence))]
      ELSE /\ outbox' = [outbox EXCEPT ![s] = Append(@, TranscriptionFrame(text, confidence))]
           /\ UNCHANGED mailboxVars

\* HandleTranscript without the test of checkTriggerWords: every non-blank
\* transcript is stored and raises the alarm
HandleTranscriptAlways(s, text, confidence) ==
  LET d == wsDeviceId[s]
  IN  IF ~NonBlank(text)
      THEN UNCHANGED << mailboxVars, outbox >>
      ELSE /\ MailboxSet(d, SessionResult(text, confidence))
           /\ outbox' = IF readyState[s] = "OPEN"
                        THEN [outbox EXCEPT ![s] = Append(@, AlarmFrame(text, confidence))]
                        ELSE outbox

HandleTranscript(s, text, confidence) ==
  LET d == wsDeviceId[s]
      triggered == checkTriggerWordsTable[TRIGGER_WORDS][text]
  IN  IF ~NonBlank(text)
      THEN UNCHANGED << mailboxVars, outbox >>
      ELSE IF triggered
      THEN /\ MailboxSet(d, SessionResult(text, confidence))
           /\ outbox' = IF readyState[s] = "OPEN"
                        THEN [outbox EXCEPT ![s] = Append(@, AlarmFrame(text, confidence))]
                        ELSE outbox
      ELSE /\ outbox' = IF readyState[s] = "OPEN"
                        THEN [outbox EXCEPT ![s] = Append(@, TranscriptionFrame(text, confidence))]
                        ELSE outbox
           /\ UNCHANGED mailboxVars

(***************************************************************************)
(* Deepgram live channel events                                            *)
(***************************************************************************)
\* LiveTranscriptionEvents.Open: registers the Transcript, Error and Close handlers
DeepgramOpen(s) ==
  /\ deepgramConnection[s] = "connecting"
  /\ deepgramConnection' = [deepgramConnection EXCEPT ![s] = "open"]
  /\ lastEvent' = Quiet
  /\ UNCHANGED << calc, SPEECH_API, TRIGGER_WORDS, deviceConnections,
                  wsDeviceId, readyState, audioBuffer, processingInterval,
                  received, dgSent, calls, outbox, mailboxVars >>

\* LiveTranscriptionEvents.Transcript, delivered once the handlers are
\* registered, also while a finished channel drains
DeepgramTranscript(s, r) ==
  /\ deepgramConnection[s] \in {"open", "finished"}
  /\ HandleTranscript(s, r.text, r.confidence)
  /\ lastEvent' = TranscriptEvent(s, r)
  /\ UNCHANGED << calc, SPEECH_API, TRIGGER_WORDS, deviceConnections, sessionVars, calls >>

\* LiveTranscriptionEvents.Close: logs only
DeepgramClose(s) ==
  /\ deepgramConnection[s] \in {"open", "finished"}
  /\ deepgramConnection' = [deepgramConnection EXCEPT ![s] = "closed"]
  /\ lastEvent' = Quiet
  /\ UNCHANGED << calc, SPEECH_API, TRIGGER_WORDS, deviceConnections,
                  wsDeviceId, readyState, audioBuffer, processingInterval,
                  received, dgSent, calls, outbox, mailboxVars >>

\* LiveTranscriptionEvents.Error once the handlers are registered: logs only
DeepgramError(s) ==
  /\ deepgramConnection[s] = "open"
  /\ lastEvent' = Event("deepgramError", s)
  /\ UNCHANGED << calc, SPEECH_API, TRIGGER_WORDS, deviceConnections,
                  sessionVars, calls, outbox, mailboxVars >>

(***************************************************************************)
(* ws.on('message'), binary branch                                         *)
(***************************************************************************)
Message(s) ==
  /\ readyState[s] = "OPEN"
  /\ LET frame == received[s] + 1 IN
     /\ received' = [received EXCEPT ![s] = frame]
     /\ IF SPEECH_API = "deepgram" /\ deepgramConnection[s] # "null"
        THEN /\ dgSent' = [dgSent EXCEPT ![s] = Append(@, frame)]
             /\ UNCHANGED audioBuffer
        ELSE IF SPEECH_API = "assemblyai"
        THEN /\ audioBuffer' = [audioBuffer EXCEPT ![s] = Append(@, frame)]
             /\ UNCHANGED dgSent
        ELSE UNCHANGED << dgSent, audioBuffer >>
  /\ lastEvent' = Quiet
  /\ UNCHANGED << calc, SPEECH_API, TRIGGER_WORDS, deviceConnections,
                  wsDeviceId, readyState, deepgramConnection,
                  processingInterval, calls, outbox, mailboxVars >>

(***************************************************************************)
(* ws.on('message') for a text frame.  The test typeof data === 'string'   *)
(* holds for a text frame only where the ws library hands text frames over *)
(* as strings (ws before 8); later versions hand every frame over as a     *)
(* Buffer, with the frame type in a second argument the handler does not   *)
(* take.  The sources pin no version: asString is either.                  *)
(***************************************************************************)
\* what stands for a text frame among the frames passed on as audio
TextFrame == 0

TextMessage(s, asString) ==
  /\ readyState[s] = "OPEN"
  /\ IF asString
     THEN \* JSON.parse in a try, a log line for a device_id announcement
          UNCHANGED << dgSent, audioBuffer >>
     ELSE IF SPEECH_API = "deepgram" /\ deepgramConnection[s] # "null"
     THEN /\ dgSent' = [dgSent EXCEPT ![s] = Append(@, TextFrame)]
          /\ UNCHANGED audioBuffer
     ELSE IF SPEECH_API = "assemblyai"
     THEN /\ audioBuffer' = [audioBuffer EXCEPT ![s] = Append(@, TextFrame)]
          /\ UNCHANGED dgSent
     ELSE UNCHANGED << dgSent, audioBuffer >>
  /\ lastEvent' = Event("text", s)
  /\ UNCHANGED << calc, SPEECH_API, TRIGGER_WORDS, deviceConnections,
                  wsDeviceId, readyState, deepgramConnection,
                  processingInterval, received, calls, outbox, mailboxVars >>

(***************************************************************************)
(* ws.on('close')                                                          *)
(***************************************************************************)
\* deepgramConnection.finish(): an open channel drains and then closes; a
\* channel that never opened has no handlers and delivers nothing
Finish(channel) ==
  CASE channel = "open" -> "finished"
    [] channel = "connecting" -> "closed"
    [] OTHER -> channel

\* Close without its clearInterval(processingInterval)
CloseKeepTimer(s) ==
  /\ readyState[s] \in {"OPEN", "CLOSING"}
  /\ readyState' = [readyState EXCEPT ![s] = "CLOSED"]
  /\ deviceConnections' = MapDelete(deviceConnections, wsDeviceId[s])
  /\ deepgramConnection' = [deepgramConnection EXCEPT ![s] = Finish(@)]
  /\ UNCHANGED processingInterval
  /\ lastEvent' = Quiet
  /\ UNCHANGED << calc, SPEECH_API, TRIGGER_WORDS, wsDeviceId, audioBuffer,
                  received, dgSent, calls, outbox, mailboxVars >>

\* Close with a deviceResults.delete(deviceId) added
CloseClearing(s) ==
  /\ readyState[s] \in {"OPEN", "CLOSING"}
  /\ readyState' = [readyState EXCEPT ![s] = "CLOSED"]
  /\ deviceConnections' = MapDelete(deviceConnections, wsDeviceId[s])
  /\ deepgramConnection' = [deepgramConnection EXCEPT ![s] = Finish(@)]
  /\ processingInterval' = [processingInterval EXCEPT ![s] = FALSE]
  /\ deviceResults' = MapDelete(deviceResults, wsDeviceId[s])
  /\ lastEvent' = Quiet
  /\ UNCHANGED << calc, SPEECH_API, TRIGGER_WORDS, wsDeviceId, audioBuffer,
                  received, dgSent, calls, outbox, writes, pending, deliveries >>

Close(s) ==
  /\ readyState[s] \in {"OPEN", "CLOSING"}
  /\ readyState' = [readyState EXCEPT ![s] = "CLOSED"]
  /\ deviceConnections' = MapDelete(deviceConnections, wsDeviceId[s])
  /\ deepgramConnection' = [deepgramConnection EXCEPT ![s] = Finish(@)]
  /\ processingInterval' = [processingInterval EXCEPT ![s] = FALSE]
  /\ lastEvent' = Quiet
  /\ UNCHANGED << calc, SPEECH_API, TRIGGER_WORDS, wsDeviceId, audioBuffer,
                  received, dgSent, calls, outbox, mailboxVars >>

(***************************************************************************)
(* The buffered variant: the setInterval callback and                      *)
(* processAssemblyAIBuffer                                                 *)
(***************************************************************************)
\* Tick without the length test of the callback and of processAssemblyAIBuffer
TickAlways(s) ==
  /\ processingInterval[s]
  /\ calls' = [calls EXCEPT ![s] = Append(@, [window |-> audioBuffer[s],
                                               status |-> "pending"])]
  /\ audioBuffer' = [audioBuffer EXCEPT ![s] = <<>>]
  /\ lastEvent' = Event("tick", s)
  /\ UNCHANGED << calc, SPEECH_API, TRIGGER_WORDS, deviceConnections,
                  wsDeviceId, readyState, deepgramConnection,
                  processingInterval, received, dgSent, outbox, mailboxVars >>

\* Tick without its audioBuffer = []
TickKeep(s) ==
  /\ processingInterval[s]
  /\ IF Len(audioBuffer[s]) > 0
     THEN calls' = [calls EXCEPT ![s] = Append(@, [window |-> audioBuffer[s],
                                                   status |-> "pending"])]
     ELSE UNCHANGED calls
  /\ UNCHANGED audioBuffer
  /\ lastEvent' = Event("tick", s)
  /\ UNCHANGED << calc, SPEECH_API, TRIGGER_WORDS, deviceConnections,
                  wsDeviceId, readyState, deepgramConnection,
                  processingInterval, received, dgSent, outbox, mailboxVars >>

\* the callback up to its await: swap the accumulator out and start one
\* transcribe call on the copy; nothing at all when the accumulator is empty
Tick(s) ==
  /\ processingInterval[s]
  /\ IF Len(audioBuffer[s]) > 0
     THEN /\ calls' = [calls EXCEPT ![s] = Append(@, [window |-> audioBuffer[s],
                                                       status |-> "pending"])]
          /\ audioBuffer' = [audioBuffer EXCEPT ![s] = <<>>]
     ELSE UNCHANGED << calls, audioBuffer >>
  /\ lastEvent' = Event("tick", s)
  /\ UNCHANGED << calc, SPEECH_API, TRIGGER_WORDS, deviceConnections,
                  wsDeviceId, readyState, deepgramConnection,
                  processingInterval, received, dgSent, outbox, mailboxVars >>

\* processAssemblyAIBuffer after its await, call c of session s having resolved
FlushResolve(s, c, r) ==
  /\ calls[s][c].status = "pending"
  /\ calls' = [calls EXCEPT ![s][c].status = "resolved"]
  /\ HandleTranscript(s, r.text, r.confidence)
  /\ lastEvent' = TranscriptEvent(s, r)
  /\ UNCHANGED << calc, SPEECH_API, TRIGGER_WORDS, deviceConnections, sessionVars >>

\* FlushReject tearing the session down: timer cancelled, connection closed
FlushRejectFatal(s, c) ==
  /\ calls[s][c].status = "pending"
  /\ calls' = [calls EXCEPT ![s][c].status = "rejected"]
  /\ processingInterval' = [processingInterval EXCEPT ![s] = FALSE]
  /\ readyState' = [readyState EXCEPT ![s] = "CLOSED"]
  /\ lastEvent' = Quiet
  /\ UNCHANGED << calc, SPEECH_API, TRIGGER_WORDS, deviceConnections,
                  wsDeviceId, audioBuffer, deepgramConnection, received,
                  dgSent, outbox, mailboxVars >>

\* processAssemblyAIBuffer's catch, call c of session s having failed: logs only
FlushReject(s, c) ==
  /\ calls[s][c].status = "pending"
  /\ calls' = [calls EXCEPT ![s][c].status = "rejected"]
  /\ lastEvent' = Quiet
  /\ UNCHANGED << calc, SPEECH_API, TRIGGER_WORDS, deviceConnections,
                  sessionVars, outbox, mailboxVars >>

(***************************************************************************)
(* POST /api/process-audio, after a successful transcription               *)
(***************************************************************************)
UploadResult(text, confidence, triggeredWords) ==
  [transcription |-> text, confidence |-> confidence, triggered |-> TRUE,
   triggeredWords |-> triggeredWords, timestamp |-> Now]

\* header is the x-device-id header, "" when the request has none
ProcessAudio(header, r) ==
  LET triggeredWords == detectTriggerWordsTable[TRIGGER_WORDS][r.text]
      shouldTrigger == Len(triggeredWords) > 0
  IN  /\ IF header # "" /\ shouldTrigger
         THEN MailboxSet(header, UploadResult(r.text, r.confidence, triggeredWords))
         ELSE UNCHANGED mailboxVars
      /\ lastEvent' = Quiet
      /\ UNCHANGED << calc, SPEECH_API, TRIGGER_WORDS, deviceConnections, sessionVars,
                      calls, outbox >>

(***************************************************************************)
(* The consuming endpoints and the manual clear                            *)
(***************************************************************************)
DEVICE_KEY == "esp32-internal-key-change-in-production"

\* the x-device-key header of a request, "" when the request has none
DeviceKeys == {DEVICE_KEY, "wrong", ""}

\* authenticateDevice: whether the request passes
authenticateDevice(deviceKey) == ~(deviceKey = "" \/ deviceKey # DEVICE_KEY)

\* the stamp a response carries: the timestamp of the result, 0 when absent
Stamp(m, d) == IF MapHas(m, d) THEN m[d].timestamp ELSE 0

\* what a consuming read leaves in the history: the stamp it returned is
\* counted, and nothing is pending for the device any more
Delivered(stamp) ==
  IF stamp = 0 THEN deliveries ELSE [deliveries EXCEPT ![stamp] = @ + 1]

\* PollStatus without its deviceResults.delete
PollStatusKeep(d) ==
  /\ UNCHANGED deviceResults
  /\ deliveries' = Delivered(Stamp(deviceResults, d))
  /\ pending' = [pending EXCEPT ![d] = 0]
  /\ lastEvent' = TakeEvent("status", d, Stamp(deviceResults, d), pending[d])
  /\ UNCHANGED << calc, SPEECH_API, TRIGGER_WORDS, deviceConnections, sessionVars,
                  calls, outbox, writes >>

\* PollStatus with deviceResults.clear() for its deviceResults.delete
PollStatusClearAll(d) ==
  /\ deviceResults' = IF MapHas(deviceResults, d) THEN EmptyMap ELSE deviceResults
  /\ deliveries' = Delivered(Stamp(deviceResults, d))
  /\ pending' = [pending EXCEPT ![d] = 0]
  /\ lastEvent' = TakeEvent("status", d, Stamp(deviceResults, d), pending[d])
  /\ UNCHANGED << calc, SPEECH_API, TRIGGER_WORDS, deviceConnections, sessionVars,
                  calls, outbox, writes >>

\* GET /api/device/:deviceId/status
PollStatus(d) ==
  /\ deviceResults' = IF MapHas(deviceResults, d)
                      THEN MapDelete(deviceResults, d)
                      ELSE deviceResults
  /\ deliveries' = Delivered(Stamp(deviceResults, d))
  /\ pending' = [pending EXCEPT ![d] = 0]
  /\ lastEvent' = TakeEvent("status", d, Stamp(deviceResults, d), pending[d])
  /\ UNCHANGED << calc, SPEECH_API, TRIGGER_WORDS, deviceConnections, sessionVars,
                  calls, outbox, writes >>

\* Clear without its deviceResults.delete
ClearKeep(d) ==
  /\ UNCHANGED deviceResults
  /\ pending' = [pending EXCEPT ![d] = 0]
  /\ lastEvent' = Event("clear", d)
  /\ UNCHANGED << calc, SPEECH_API, TRIGGER_WORDS, deviceConnections, sessionVars,
                  calls, outbox, writes, deliveries >>

\* POST /api/device/:deviceId/clear
Clear(d) ==
  /\ deviceResults' = MapDelete(deviceResults, d)
  /\ pending' = [pending EXCEPT ![d] = 0]
  /\ lastEvent' = Event("clear", d)
  /\ UNCHANGED << calc, SPEECH_API, TRIGGER_WORDS, deviceConnections, sessionVars,
                  calls, outbox, writes, deliveries >>

\* Heartbeat without authenticateDevice in front of it
HeartbeatNoAuth(d, deviceKey) ==
  /\ deviceResults' = IF MapHas(deviceResults, d)
                      THEN MapDelete(deviceResults, d)
                      ELSE deviceResults
  /\ deliveries' = Delivered(Stamp(deviceResults, d))
  /\ pending' = [pending EXCEPT ![d] = 0]
  /\ lastEvent' = TakeEvent("heartbeat", d, Stamp(deviceResults, d), pending[d])
  /\ UNCHANGED << calc, SPEECH_API, TRIGGER_WORDS, deviceConnections, sessionVars,
                  calls, outbox, writes >>

\* Heartbeat without its deviceResults.delete
HeartbeatKeep(d, deviceKey) ==
  IF ~authenticateDevice(deviceKey)
  THEN /\ lastEvent' = Event("heartbeat401", d)
       /\ UNCHANGED << calc, SPEECH_API, TRIGGER_WORDS, deviceConnections,
                       sessionVars, calls, outbox, mailboxVars >>
  ELSE /\ UNCHANGED deviceResults
       /\ deliveries' = Delivered(Stamp(deviceResults, d))
       /\ pending' = [pending EXCEPT ![d] = 0]
       /\ lastEvent' = TakeEvent("heartbeat", d, Stamp(deviceResults, d), pending[d])
       /\ UNCHANGED << calc, SPEECH_API, TRIGGER_WORDS, deviceConnections, sessionVars,
                       calls, outbox, writes >>

\* POST /internal/device/:deviceId/heartbeat
Heartbeat(d, deviceKey) ==
  IF ~authenticateDevice(deviceKey)
  THEN /\ lastEvent' = Event("heartbeat401", d)
       /\ UNCHANGED << calc, SPEECH_API, TRIGGER_WORDS, deviceConnections,
                       sessionVars, calls, outbox, mailboxVars >>
  ELSE /\ deviceResults' = IF MapHas(deviceResults, d)
                           THEN MapDelete(deviceResults, d)
                           ELSE deviceResults
       /\ deliveries' = Delivered(Stamp(deviceResults, d))
       /\ pending' = [pending EXCEPT ![d] = 0]
       /\ lastEvent' = TakeEvent("heartbeat", d, Stamp(deviceResults, d), pending[d])
       /\ UNCHANGED << calc, SPEECH_API, TRIGGER_WORDS, deviceConnections, sessionVars,
                       calls, outbox, writes >>

\* GET /internal/device/:deviceId/status
InternalStatus(d, deviceKey) ==
  IF ~authenticateDevice(deviceKey)
  THEN /\ lastEvent' = Event("internalStatus401", d)
       /\ UNCHANGED << calc, SPEECH_API, TRIGGER_WORDS, deviceConnections,
                       sessionVars, calls, outbox, mailboxVars >>
  ELSE /\ deviceResults' = IF MapHas(deviceResults, d)
                           THEN MapDelete(deviceResults, d)
                           ELSE deviceResults
       /\ deliveries' = Delivered(Stamp(deviceResults, d))
       /\ pending' = [pending EXCEPT ![d] = 0]
       /\ lastEvent' = TakeEvent("internalStatus", d, Stamp(deviceResults, d), pending[d])
       /\ UNCHANGED << calc, SPEECH_API, TRIGGER_WORDS, deviceConnections, sessionVars,
                       calls, outbox, writes >>

(***************************************************************************)
(* shutdown, run on SIGTERM and SIGINT and by the uncaughtException and    *)
(* unhandledRejection handlers.  It closes the connections of the          *)
(* registry, empties the registry, and closes the WebSocket server and the *)
(* HTTP server; the close handlers of the connections run later, as        *)
(* Close(s), if the process has not exited before.  wss.close() terminates *)
(* every connection the WebSocket server tracks in ws before 8 and none    *)
(* from 8 on: terminateClients is either.                                  *)
(***************************************************************************)
\* the sessions whose connection shutdown closes
ShutdownCloses(terminateClients) ==
  IF terminateClients THEN Sessions
  ELSE {deviceConnections[d] : d \in DOMAIN deviceConnections}

\* what a run of shutdown assigns
ShutdownAssigns(terminateClients) ==
  /\ readyState' =
       [s \in Sessions |->
          IF s \in ShutdownCloses(terminateClients) /\ readyState[s] = "OPEN"
          THEN "CLOSING" ELSE readyState[s]]
  /\ deviceConnections' = EmptyMap
  /\ calc' = [calc EXCEPT !.listening = FALSE]
  /\ lastEvent' = Event("shutdown", 0)

Shutdown(terminateClients) ==
  /\ ShutdownAssigns(terminateClients)
  /\ UNCHANGED << SPEECH_API, TRIGGER_WORDS, wsDeviceId, audioBuffer,
                  deepgramConnection, processingInterval, received, dgSent,
                  calls, outbox, mailboxVars >>

\* The live channel of session s fails to open.  The Error and Close handlers
\* are registered by the Open handler, so none runs.  An 'error' event without
\* a listener is thrown by a Node EventEmitter and reaches the
\* uncaughtException handler, which runs shutdown; an emitter that tolerates
\* it loses the event: uncaught is either.
DeepgramOpenFail(s, uncaught, terminateClients) ==
  /\ deepgramConnection[s] = "connecting"
  /\ deepgramConnection' = [deepgramConnection EXCEPT ![s] = "failed"]
  /\ IF uncaught
     THEN ShutdownAssigns(terminateClients)
     ELSE /\ lastEvent' = Quiet
          /\ UNCHANGED << readyState, deviceConnections, calc >>
  /\ UNCHANGED << SPEECH_API, TRIGGER_WORDS, wsDeviceId, audioBuffer,
                  processingInterval, received, dgSent, calls, outbox,
                  mailboxVars >>

(***************************************************************************)
(* POST /api/config/trigger-words                                          *)
(***************************************************************************)
\* the handler: 400 without a words array; otherwise TRIGGER_WORDS.length = 0
\* and then the push of the mapped words, whose map throws at an element
\* without toLowerCase (the request then fails with the list left empty)
UpdateTriggerWords(body) ==
  /\ IF body.kind # "array"
     THEN /\ UNCHANGED TRIGGER_WORDS
          /\ lastEvent' = Event("triggerWords400", body.kind)
     ELSE IF \E i \in 1..Len(body.words) : ~body.words[i].isString
     THEN /\ TRIGGER_WORDS' = <<>>
          /\ lastEvent' = Event("triggerWords500", body.kind)
     ELSE /\ TRIGGER_WORDS' = MappedWords(body.words)
          /\ lastEvent' = Event("triggerWords200", body.kind)
  /\ UNCHANGED << calc, SPEECH_API, deviceConnections, sessionVars, calls,
                  outbox, mailboxVars >>

(***************************************************************************)
(* The similarity matcher and the two trigger detections on their own      *)
(***************************************************************************)
\* the characters of the strings compared
Alphabet == {"a", "b"}

\* the strings compared: every string over Alphabet up to MaxStringLen
Strings == UNION {[1..n -> Alphabet] : n \in 0..MaxStringLen}

\* the transcripts given to the detections
Transcripts ==
  { <<"s","o","u","n","d"," ","t","h","e"," ","a","l","a","a","m"," ","n","o","w">>,
    <<"i"," ","n","e","e","d"," ","h","e","l","p","s"," ","n","o","w">>,
    <<"t","h","e","r","e"," ","i","s"," ","a"," ","f","i","r","e"," ","h","e","r","e">>,
    <<"h","e","l">>,
    <<"a","n"," ","a","l","a"," ","a","l","a","r","n"," ","a","r","m">>,
    <<"F","i","r","e","!">>,
    <<"h","i">>,
    <<" ">>,
    <<>> }

serverVars == << SPEECH_API, TRIGGER_WORDS, deviceConnections, sessionVars,
                 calls, outbox, mailboxVars, lastEvent >>

\* one call of calculateSimilarity(str1, str2)
CalculateSimilarity ==
  /\ "calculateSimilarity" \notin returned
  /\ calc' = [calc EXCEPT !.similarity = calculateSimilarity(str1, str2),
                           !.returned = @ \cup {"calculateSimilarity"}]
  /\ UNCHANGED serverVars

\* one call of checkTriggerWords(transcript)
CheckTriggerWords ==
  /\ "checkTriggerWords" \notin returned
  /\ calc' = [calc EXCEPT
                !.sessionTriggered = checkTriggerWords(TRIGGER_WORDS, transcript),
                !.returned = @ \cup {"checkTriggerWords"}]
  /\ UNCHANGED serverVars

\* one run of the detection of POST /api/process-audio on transcript
DetectTriggerWords ==
  /\ "triggeredWords" \notin returned
  /\ calc' = [calc EXCEPT
                !.uploadTriggeredWords = detectTriggerWords(TRIGGER_WORDS, transcript),
                !.returned = @ \cup {"triggeredWords"}]
  /\ UNCHANGED serverVars

(***************************************************************************)
(* The specifications                                                      *)
(***************************************************************************)
\* The server: every handler, at any time, with any input.
Next ==
  \/ \E d \in Devices : Connect(d)
  \/ \E s \in Sessions : DeepgramOpen(s)
  \/ \E s \in Sessions, r \in ProviderResults : DeepgramTranscript(s, r)
  \/ \E s \in Sessions : DeepgramClose(s)
  \/ \E s \in Sessions : Message(s)
  \/ \E s \in Sessions : Close(s)
  \/ \E s \in Sessions : Tick(s)
  \/ \E s \in Sessions : \E c \in DOMAIN calls[s], r \in ProviderResults :
       FlushResolve(s, c, r)
  \/ \E s \in Sessions : \E c \in DOMAIN calls[s] : FlushReject(s, c)
  \/ \E h \in Devices \cup {""}, r \in ProviderResults : ProcessAudio(h, r)
  \/ \E d \in Devices : PollStatus(d)
  \/ \E d \in Devices : Clear(d)
  \/ \E d \in Devices, k \in DeviceKeys : Heartbeat(d, k)
  \/ \E d \in Devices, k \in DeviceKeys : InternalStatus(d, k)
  \/ \E b \in UpdateBodies : UpdateTriggerWords(b)
  \/ \E s \in Sessions : DeepgramError(s)
  \/ \E s \in Sessions, u \in BOOLEAN, t \in BOOLEAN : DeepgramOpenFail(s, u, t)
  \/ \E s \in Sessions, a \in BOOLEAN : TextMessage(s, a)
  \/ \E t \in BOOLEAN : Shutdown(t)

Spec == Init /\ [][Next]_vars

\* The runs of Spec are unbounded (connections, frames and results keep
\* coming); each specification below keeps the handlers it studies and bounds
\* the run.

\* no connection has been accepted yet
NoSessionYet == wsDeviceId = <<>>

\* SpecSession: the device sessions alone (connections, audio, the two back
\* ends and their transcripts), without the HTTP endpoints.
NextSession ==
  \/ \E d \in Devices : Len(wsDeviceId) < MaxSessions /\ Connect(d)
  \/ \E s \in Sessions : DeepgramOpen(s)
  \/ \E s \in Sessions, r \in ProviderResults :
       /\ Len(writes) < MaxWrites
       /\ Len(outbox[s]) < MaxOutbox
       /\ DeepgramTranscript(s, r)
  \/ \E s \in Sessions : DeepgramClose(s)
  \/ \E s \in Sessions : received[s] < MaxFrames /\ Message(s)
  \/ \E s \in Sessions : Close(s)
  \/ \E s \in Sessions : Tick(s)
  \/ \E s \in Sessions : \E c \in DOMAIN calls[s], r \in ProviderResults :
       Len(writes) < MaxWrites /\ FlushResolve(s, c, r)
  \/ \E s \in Sessions : \E c \in DOMAIN calls[s] : FlushReject(s, c)

SpecSession == Init /\ [][NextSession]_vars

\* SpecMailbox: the mailbox with all its writers and readers: one device
\* session, of either variant, the uploads, and the HTTP endpoints that read or
\* clear.
NextMailbox ==
  \/ \E d \in Devices : NoSessionYet /\ Connect(d)
  \/ \E s \in Sessions : DeepgramOpen(s)
  \/ \E s \in Sessions, r \in ProviderResults :
       /\ Len(writes) < MailboxWrites
       /\ Len(outbox[s]) < MailboxOutbox
       /\ DeepgramTranscript(s, r)
  \/ \E s \in Sessions : received[s] < MailboxFrames /\ Message(s)
  \/ \E s \in Sessions : Close(s)
  \/ \E s \in Sessions : Tick(s)
  \/ \E s \in Sessions : \E c \in DOMAIN calls[s], r \in ProviderResults :
       Len(writes) < MailboxWrites /\ FlushResolve(s, c, r)
  \/ \E h \in Devices \cup {""}, r \in ProviderResults :
       Len(writes) < MailboxWrites /\ ProcessAudio(h, r)
  \/ \E d \in Devices : PollStatus(d)
  \/ \E d \in Devices : Clear(d)
  \/ \E d \in Devices, k \in DeviceKeys : Heartbeat(d, k)
  \/ \E d \in Devices, k \in DeviceKeys : InternalStatus(d, k)

SpecMailbox == Init /\ [][NextMailbox]_vars

\* SpecOutbound: one device session of either variant and the transcripts of
\* its back end, without the HTTP endpoints.
NextOutbound ==
  \/ \E d \in Devices : NoSessionYet /\ Connect(d)
  \/ \E s \in Sessions : DeepgramOpen(s)
  \/ \E s \in Sessions, r \in ProviderResults :
       /\ Len(writes) < OutboundWrites
       /\ Len(outbox[s]) < OutboundOutbox
       /\ DeepgramTranscript(s, r)
  \/ \E s \in Sessions : received[s] < OutboundFrames /\ Message(s)
  \/ \E s \in Sessions : Close(s)
  \/ \E s \in Sessions : Tick(s)
  \/ \E s \in Sessions : \E c \in DOMAIN calls[s], r \in ProviderResults :
       Len(writes) < OutboundWrites /\ FlushResolve(s, c, r)

SpecOutbound == Init /\ [][NextOutbound]_vars

\* SpecBuffered: one session of a server configured for the buffered variant.
InitBuffered == Init /\ SPEECH_API = "assemblyai"

NextBuffered ==
  \/ \E d \in Devices : NoSessionYet /\ Connect(d)
  \/ \E s \in Sessions : received[s] < BufferedFrames /\ Message(s)
  \/ \E s \in Sessions : Close(s)
  \/ \E s \in Sessions : Tick(s)
  \/ \E s \in Sessions : \E c \in DOMAIN calls[s], r \in ProviderResults :
       Len(writes) < BufferedWrites /\ FlushResolve(s, c, r)
  \/ \E s \in Sessions : \E c \in DOMAIN calls[s] : FlushReject(s, c)

SpecBuffered == InitBuffered /\ [][NextBuffered]_vars

\* SpecSimilarity: calculateSimilarity on every pair of Strings.
InitSimilarity ==
  /\ TRIGGER_WORDS = DefaultTriggerWords
  /\ InitState
  /\ \E a \in Strings, b \in Strings :
       calc = [NoCalc EXCEPT !.str1 = a, !.str2 = b]

NextSimilarity == CalculateSimilarity

SpecSimilarity == InitSimilarity /\ [][NextSimilarity]_vars

\* SpecDetect: the two trigger detections on every transcript of Transcripts,
\* for every configured trigger word list.
InitDetect ==
  /\ TRIGGER_WORDS \in TriggerWordLists
  /\ InitState
  /\ \E t \in Transcripts : calc = [NoCalc EXCEPT !.transcript = t]

NextDetect ==
  \/ CheckTriggerWords
  \/ DetectTriggerWords

SpecDetect == InitDetect /\ [][NextDetect]_vars

\* a text frame of session s has been passed on as audio
TextForwarded(s) ==
  \/ \E i \in 1..Len(dgSent[s]) : dgSent[s][i] = TextFrame
  \/ \E i \in 1..Len(audioBuffer[s]) : audioBuffer[s][i] = TextFrame
  \/ \E c \in 1..Len(calls[s]) : \E i \in 1..Len(calls[s][c].window) :
       calls[s][c].window[i] = TextFrame

\* SpecLifecycle: the life of the device sessions (connections, audio and
\* text frames, the events of the live channel, failed flushes, shutdown),
\* without transcripts.
NextLifecycle ==
  \/ \E d \in Devices : Len(wsDeviceId) < LifecycleSessions /\ Connect(d)
  \/ \E s \in Sessions : DeepgramOpen(s)
  \/ \E s \in Sessions, u \in BOOLEAN, t \in BOOLEAN : DeepgramOpenFail(s, u, t)
  \/ \E s \in Sessions : DeepgramError(s)
  \/ \E s \in Sessions : DeepgramClose(s)
  \/ \E s \in Sessions : received[s] < LifecycleFrames /\ Message(s)
  \/ \E s \in Sessions, a \in BOOLEAN : ~TextForwarded(s) /\ TextMessage(s, a)
  \/ \E s \in Sessions : Close(s)
  \/ \E s \in Sessions : Tick(s)
  \/ \E s \in Sessions : \E c \in DOMAIN calls[s] : FlushReject(s, c)
  \/ \E t \in BOOLEAN : Shutdown(t)

SpecLifecycle == Init /\ [][NextLifecycle]_vars

\* SpecHttp: the HTTP endpoints alone, no device session, for every
\* configured trigger word list.
NextHttp ==
  \/ \E b \in UpdateBodies : UpdateTriggerWords(b)
  \/ \E h \in Devices \cup {""}, r \in ProviderResults :
       Len(writes) < HttpWrites /\ ProcessAudio(h, r)
  \/ \E d \in Devices : PollStatus(d)
  \/ \E d \in Devices : Clear(d)
  \/ \E d \in Devices, k \in DeviceKeys : Heartbeat(d, k)
  \/ \E d \in Devices, k \in DeviceKeys : InternalStatus(d, k)

SpecHttp == InitConfigured /\ [][NextHttp]_vars

\* SpecConfigured: the runs of SpecMailbox for every configured trigger word
\* list.
SpecConfigured == InitConfigured /\ [][NextMailbox]_vars

(***************************************************************************)
(* The claims                                                              *)
(***************************************************************************)
TakeTypes == {"status", "heartbeat", "internalStatus"}

\* C1: the mailbox is last-write-wins with a consume-once read: a consuming
\* read of device d returns exactly the result set last for d and neither read
\* nor cleared since, and absent (stamp 0) when there is none, so a second
\* read with no set in between returns absent.
C1_LastWriteWinsConsumeOnce ==
  lastEvent.type \in TakeTypes => lastEvent.stamp = lastEvent.expected

\* two results were written for the device of a session, one of them by the
\* session, the first was never delivered, and a status poll of that device
\* has just returned the second
C1_Witness ==
  \E s \in Sessions :
    /\ \E i \in DOMAIN outbox[s] : outbox[s][i].transcription = <<"F","i","r","e","!">>
    /\ writes = << wsDeviceId[s], wsDeviceId[s] >>
    /\ deliveries = <<0, 1>>
    /\ lastEvent = TakeEvent("status", wsDeviceId[s], 2, 2)
    /\ ~MapHas(deviceResults, wsDeviceId[s])

\* C2: at-most-once delivery: over all writers and the three consuming
\* endpoints, no stored result is returned with triggered:true by more than
\* one request.
C2_AtMostOnceDelivery ==
  \A n \in DOMAIN deliveries : deliveries[n] <= 1

\* two results have each been delivered once, the second by a heartbeat
C2_Witness ==
  /\ deliveries = <<1, 1>>
  /\ lastEvent.type = "heartbeat"
  /\ lastEvent.stamp = 2

\* C3: a consuming read is atomic with respect to the sets: the slot of every
\* device always holds exactly the result set last for it and neither read nor
\* cleared since; no result leaves the mailbox but by a read that returns it, a
\* later set that overwrites it, or a clear.
C3_NoResultLost ==
  \A d \in Devices : Stamp(deviceResults, d) = pending[d]

\* a result set after a consuming read delivered the previous one is still
\* in the slot
C3_Witness ==
  \E d \in Devices :
    /\ writes = <<d, d>>
    /\ deliveries = <<1, 0>>
    /\ pending[d] = 2
    /\ Stamp(deviceResults, d) = 2

\* session s has an open connection and a running adapter
Live(s) ==
  /\ readyState[s] = "OPEN"
  /\ deepgramConnection[s] = "open" \/ processingInterval[s]

\* C4: at most one live device session per deviceId: no two sessions of one
\* deviceId have an open connection with a running adapter at the same time.
C4_OneLiveSessionPerDevice ==
  \A s1, s2 \in Sessions :
    (s1 # s2 /\ Live(s1) /\ Live(s2)) => wsDeviceId[s1] # wsDeviceId[s2]

\* a later connection has arrived for the deviceId of session s
Superseded(s) ==
  \E s2 \in Sessions : s2 > s /\ wsDeviceId[s2] = wsDeviceId[s]

\* C5: once a second connection has arrived for its deviceId, no audio frame
\* received on the first connection is forwarded to an adapter: nothing more is
\* sent to its streaming channel or appended to its accumulator.
C5_SupersededNotForwarded ==
  [][\A s \in Sessions :
       Superseded(s) => /\ Len(dgSent'[s]) <= Len(dgSent[s])
                        /\ Len(audioBuffer'[s]) <= Len(audioBuffer[s])]_vars

\* C6: the close of a session removes the registry entry of its deviceId only
\* if that entry refers to the closing session; a newer session registered for
\* the deviceId stays registered.
C6_CloseRemovesOwnEntryOnly ==
  [][\A s \in Sessions :
       (/\ readyState[s] = "OPEN"
        /\ readyState'[s] = "CLOSED"
        /\ MapHas(deviceConnections, wsDeviceId[s])
        /\ deviceConnections[wsDeviceId[s]] # s)
       => deviceConnections' = deviceConnections]_vars

\* the calls of session s that have not settled
InFlight(s) == {c \in 1..Len(calls[s]) : calls[s][c].status = "pending"}

\* C7: buffered variant: at most one flush (provider call) of a session is in
\* flight at any time.
C7_OneFlushInFlight ==
  \A s \in Sessions : Cardinality(InFlight(s)) <= 1

\* C8: buffered variant: the results of one session are handled in the order
\* of their audio windows: when the result of a call is handled, no call of an
\* earlier window of the session is still outstanding.
C8_ResultsInWindowOrder ==
  [][\A s \in Sessions : \A c \in 1..Len(calls[s]) :
       (calls[s][c].status = "pending" /\ calls'[s][c].status = "resolved")
       => \A b \in 1..(c - 1) : calls[s][b].status # "pending"]_vars

\* C9: buffered variant: a timer tick that finds the accumulator empty makes
\* no provider call, writes nothing to the mailbox and sends no frame.
C9_EmptyTickDoesNothing ==
  [][\A s \in Sessions :
       (lastEvent' = Event("tick", s) /\ audioBuffer[s] = <<>>)
       => UNCHANGED << calls, deviceResults, outbox, audioBuffer >>]_vars

\* the timer callback of a session that has received no frame has run
C9_Witness ==
  \E s \in Sessions :
    /\ lastEvent = Event("tick", s)
    /\ received[s] = 0
    /\ calls[s] = <<>>

\* the windows of the calls of session s from the c-th on, concatenated
RECURSIVE WindowsFrom(_, _)
WindowsFrom(s, c) ==
  IF c > Len(calls[s]) THEN <<>>
  ELSE calls[s][c].window \o WindowsFrom(s, c + 1)

\* C10: buffered variant frame integrity: the flush windows of a session, in
\* tick order, followed by its accumulator are exactly the frames it received,
\* in receipt order, each once; and the window of a call, once started, never
\* changes, so a frame received during a flush goes to the next window.
C10_FrameIntegrity ==
  /\ [](\A s \in Sessions :
          SPEECH_API = "assemblyai" =>
            WindowsFrom(s, 1) \o audioBuffer[s] = [i \in 1..received[s] |-> i])
  /\ [][\A s \in Sessions : \A c \in 1..Len(calls[s]) :
          calls'[s][c].window = calls[s][c].window]_vars

\* the second frame of a session was received while the flush of its first
\* was in flight, and went out in a second window
C10_Witness ==
  \E s \in Sessions :
    /\ Len(calls[s]) = 2
    /\ calls[s][1].status = "pending"
    /\ calls[s][1].window = <<1>>
    /\ calls[s][2].window = <<2>>

\* C11: a disconnect leaves the mailbox untouched: the close of a session's
\* connection neither removes nor changes any pending result (so a result
\* stored before the close is what the first poll after it returns).
C11_CloseLeavesMailbox ==
  [][\A s \in Sessions :
       (readyState[s] = "OPEN" /\ readyState'[s] = "CLOSED")
       => /\ deviceResults' = deviceResults
          /\ pending' = pending]_vars

\* a session wrote a result while open (it sent the ALARM frame), closed, and
\* a status poll has then returned that result
C11_Witness ==
  \E s \in Sessions :
    /\ readyState[s] = "CLOSED"
    /\ Len(outbox[s]) = 1
    /\ outbox[s][1] = AlarmFrame(<<"F","i","r","e","!">>, 95)
    /\ writes = << wsDeviceId[s] >>
    /\ deliveries = <<1>>
    /\ lastEvent = TakeEvent("status", wsDeviceId[s], 1, 1)

\* C12: transcript callbacks act only while the session is active: a
\* transcript handled by a session whose connection has closed (the result of
\* a flush in flight at the close, a late streaming transcript) writes nothing
\* to the mailbox and sends no frame.
C12_NoTranscriptAfterClose ==
  [][(lastEvent'.type = "transcript" /\ readyState[lastEvent'.who] = "CLOSED")
     => UNCHANGED << deviceResults, writes, outbox >>]_vars

\* the session path's detection matches the text of a handled transcript
SessionMatch(text) ==
  NonBlank(text) /\ checkTriggerWords(TRIGGER_WORDS, text)

\* C13: a transcript handled by a session writes the mailbox if and only if
\* the session's trigger detection matches its text; on a match the slot of
\* the session's deviceId then holds that transcription and confidence, in
\* place of whatever it held, and an ALARM frame with them is sent exactly
\* when the connection is open; without a match the mailbox is unchanged and
\* no ALARM frame is sent.
C13_WriteIffMatch ==
  [][lastEvent'.type = "transcript" =>
       LET s == lastEvent'.who
           d == wsDeviceId[s]
           text == lastEvent'.text
           confidence == lastEvent'.confidence
           alarm == Append(outbox[s], AlarmFrame(text, confidence))
       IN  /\ (writes' # writes) <=> SessionMatch(text)
           /\ SessionMatch(text) =>
                /\ writes' = Append(writes, d)
                /\ MapHas(deviceResults', d)
                /\ deviceResults'[d].transcription = text
                /\ deviceResults'[d].confidence = confidence
                /\ deviceResults'[d].triggered
                /\ \A e \in Devices \ {d} :
                     /\ MapHas(deviceResults', e) <=> MapHas(deviceResults, e)
                     /\ MapHas(deviceResults, e) => deviceResults'[e] = deviceResults[e]
           /\ ~SessionMatch(text) => deviceResults' = deviceResults
           /\ (outbox'[s] = alarm) <=> (SessionMatch(text) /\ readyState[s] = "OPEN")
           /\ \A o \in Sessions \ {s} : outbox'[o] = outbox[o]]_vars

\* a session has handled a matching transcript while a result for its
\* device was still unconsumed, and its result has taken the slot
C13_Witness ==
  /\ lastEvent.type = "transcript"
  /\ lastEvent.text = <<"F","i","r","e","!">>
  /\ writes = << wsDeviceId[lastEvent.who], wsDeviceId[lastEvent.who] >>
  /\ deliveries = <<0, 0>>
  /\ Stamp(deviceResults, wsDeviceId[lastEvent.who]) = 2

\* C14: a trigger match is never derived from an empty or whitespace-only
\* transcript, on any path and for any configured trigger word list: every
\* result in the mailbox carries a non-blank transcription.
C14_NoMatchOnBlankTranscript ==
  \A d \in DOMAIN deviceResults : NonBlank(deviceResults[d].transcription)

\* the detection of POST /api/process-audio has run on the transcript
\* "sound the alaam now" with the one trigger word "alarm"
AlaamCase ==
  /\ TRIGGER_WORDS = << <<"a","l","a","r","m">> >>
  /\ transcript = <<"s","o","u","n","d"," ","t","h","e"," ",
                    "a","l","a","a","m"," ","n","o","w">>
  /\ "triggeredWords" \in returned

\* C15 as stated: with trigger word "alarm" and transcript "sound the alaam
\* now", detection yields a fuzzy match on "alaam" whose score is at least
\* 0.70.
C15_FuzzyMatchOnAlaam ==
  AlaamCase =>
    \E i \in DOMAIN uploadTriggeredWords :
      /\ uploadTriggeredWords[i].kind = "fuzzy"
      /\ uploadTriggeredWords[i].word = <<"a","l","a","a","m">>
      /\ uploadTriggeredWords[i].percent >= 70

\* C15, amended: with trigger word "alarm" and transcript "sound the alaam
\* now", detection yields no match at all: the bigram similarity of "alaam"
\* and "alarm" is 4/8 = 0.5 (two of four bigrams shared), below the threshold
\* of 0.70.
C15_NoMatchOnAlaam ==
  AlaamCase =>
    /\ uploadTriggeredWords = <<>>
    /\ calculateSimilarity(<<"a","l","a","a","m">>, <<"a","l","a","r","m">>)
         = [num |-> 4, den |-> 8]

C15_Witness == AlaamCase

\* the detection of POST /api/process-audio has run on the transcript
\* "i need helps now" with the one trigger word "help"
HelpsCase ==
  /\ TRIGGER_WORDS = << <<"h","e","l","p">> >>
  /\ transcript = <<"i"," ","n","e","e","d"," ","h","e","l","p","s"," ","n","o","w">>
  /\ "triggeredWords" \in returned

\* C16 as stated: with trigger word "help" and transcript "i need helps now",
\* detection yields a substring match with matched word "helps".
C16_SubstringMatchOnHelps ==
  HelpsCase =>
    \E i \in DOMAIN uploadTriggeredWords :
      /\ uploadTriggeredWords[i].kind = "matched"
      /\ uploadTriggeredWords[i].word = <<"h","e","l","p","s">>

\* C16, amended: with trigger word "help" and transcript "i need helps now",
\* detection yields one match, the exact match on "help" (the transcript
\* contains "help"), and the substring and fuzzy strategies are not tried.
C16_ExactMatchOnHelps ==
  HelpsCase =>
    uploadTriggeredWords = << [kind |-> "exact", trigger |-> <<"h","e","l","p">>] >>

C16_Witness == HelpsCase /\ Len(uploadTriggeredWords) = 1

\* C17: the session's trigger decision is the detector's: for every
\* transcript and trigger word list, what checkTriggerWords decides equals
\* whether the three-strategy detection returns a non-empty list.
C17_SessionDecisionIsDetectors ==
  {"checkTriggerWords", "triggeredWords"} \subseteq returned
    => (sessionTriggered <=> Len(uploadTriggeredWords) > 0)

\* a similarity that is not a number: the quotient 0/0
IsNaN(sim) == sim.den = 0

\* two similarities are the same value
SameNumber(x, y) ==
  IF IsNaN(x) \/ IsNaN(y) THEN IsNaN(x) /\ IsNaN(y)
  ELSE x.num * y.den = y.num * x.den

\* C18: similarity is symmetric: calculateSimilarity(a, b) equals
\* calculateSimilarity(b, a) for all strings a and b.
C18_SimilaritySymmetric ==
  "calculateSimilarity" \in returned
    => SameNumber(similarity, calculateSimilarity(str2, str1))

\* C19: similarity lies in [0,1]: twice the computed bigram intersection
\* size never exceeds the number of bigrams of a plus the number of bigrams
\* of b.
C19_SimilarityInUnitInterval ==
  "calculateSimilarity" \in returned
    => /\ 0 <= similarity.num
       /\ similarity.num <= similarity.den

\* C20: similarity is exactly 0 whenever an argument has fewer than two
\* characters, never the not-a-number result of a division by zero.
C20_ShortInputsGiveZero ==
  ("calculateSimilarity" \in returned /\ (Len(str1) < 2 \/ Len(str2) < 2))
    => /\ ~IsNaN(similarity)
       /\ similarity.num = 0

\* C21: the similarity of a string of at least two characters with itself
\* is 1, repeated bigrams or not.
C21_SelfSimilarityIsOne ==
  ("calculateSimilarity" \in returned /\ str1 = str2 /\ Len(str1) >= 2)
    => /\ similarity.den > 0
       /\ similarity.num = similarity.den

\* calculateSimilarity has returned for "aaa" and "aaa", whose bigram "aa"
\* is repeated
C21_Witness ==
  /\ "calculateSimilarity" \in returned
  /\ str1 = <<"a","a","a">>
  /\ str2 = <<"a","a","a">>
  /\ similarity = [num |-> 4, den |-> 4]

\* C22: a rejected trigger-word update does not mutate the list: after an
\* update request that fails (no words, words no array, an element that
\* cannot be lower-cased and trimmed) the list is what it was before.
C22_RejectedUpdateKeepsList ==
  [][lastEvent'.type \in {"triggerWords400", "triggerWords500"}
       => TRIGGER_WORDS' = TRIGGER_WORDS]_vars

\* every configured trigger word is lower-cased and trimmed
Normalised(words) ==
  \A i \in 1..Len(words) : words[i] = trim(toLowerCase(words[i]))

\* C23: in every reachable state every configured trigger word is
\* lower-cased and has no leading or trailing white space.
C23_WordsNormalised == Normalised(TRIGGER_WORDS)

\* C24: a failed flush call is not fatal to the session: the step in which
\* the provider call of a flush fails leaves the connection state, the timer,
\* the registry, the accumulator, the mailbox and the outbound frames as they
\* were; and only the close of the connection ever cancels the timer, so the
\* frames received afterwards are accumulated and go out in a later flush.
C24_FailedFlushNotFatal ==
  /\ [][\A s \in Sessions : \A c \in 1..Len(calls[s]) :
          (calls[s][c].status = "pending" /\ calls'[s][c].status = "rejected")
          => UNCHANGED << readyState, processingInterval, deviceConnections,
                          audioBuffer, deviceResults, outbox >>]_vars
  /\ [][\A s \in Sessions :
          (processingInterval[s] /\ ~processingInterval'[s])
          => (readyState[s] = "OPEN" /\ readyState'[s] = "CLOSED")]_vars

\* the flush of the first frame failed; the session, still open with its timer
\* armed, received a second frame, which a later flush submitted and the
\* provider transcribed
C24_Witness ==
  \E s \in Sessions :
    /\ readyState[s] = "OPEN"
    /\ processingInterval[s]
    /\ Len(calls[s]) = 2
    /\ calls[s][1] = [window |-> <<1>>, status |-> "rejected"]
    /\ calls[s][2] = [window |-> <<2>>, status |-> "resolved"]

\* C25: when the provider closes the streaming channel of a session, the
\* session tears itself down: it does not stay active forwarding audio into
\* the closed channel, so no frame is ever sent into a channel that the
\* provider has closed.
C25_NoForwardIntoClosedChannel ==
  [][\A s \in Sessions :
       deepgramConnection[s] = "closed" => dgSent'[s] = dgSent[s]]_vars

\* the live channel of session s fails to open in this step
OpenFails(s) ==
  deepgramConnection[s] = "connecting" /\ deepgramConnection'[s] = "failed"

\* C26: streaming variant: when the live channel of a session fails to open,
\* the failure is surfaced to the owning session: its error handler runs, or
\* an error frame goes out on its connection (so the frames pushed before the
\* open confirmation are not dropped without a signal).
C26_OpenFailureSurfaced ==
  [][\A s \in Sessions :
       OpenFails(s) => \/ lastEvent' = Event("deepgramError", s)
                       \/ outbox'[s] # outbox[s]]_vars

\* a failure is raised in this step while handling session s: its live
\* channel fails to open or reports an error, or one of its flush calls fails
FailureIn(s) ==
  \/ OpenFails(s)
  \/ lastEvent' = Event("deepgramError", s)
  \/ \E c \in 1..Len(calls[s]) :
       calls[s][c].status = "pending" /\ calls'[s][c].status = "rejected"

\* C27: session isolation: a failure raised while handling the session of one
\* device changes nothing of the session of any other device: not its
\* connection state, its live channel, its timer, its accumulator or its
\* registry entry.
C27_SessionIsolation ==
  [][\A s \in Sessions : FailureIn(s) =>
       \A t \in Sessions : wsDeviceId[t] # wsDeviceId[s] =>
         /\ readyState'[t] = readyState[t]
         /\ deepgramConnection'[t] = deepgramConnection[t]
         /\ processingInterval'[t] = processingInterval[t]
         /\ audioBuffer'[t] = audioBuffer[t]
         /\ MapHas(deviceConnections', wsDeviceId[t])
              = MapHas(deviceConnections, wsDeviceId[t])]_vars

\* C28: orderly shutdown stops every session: a run of shutdown closes the
\* connection of every session that is live, the sessions whose registry
\* entry a later connection replaced included, so that none is left open.
C28_ShutdownClosesEverySession ==
  [][lastEvent'.type = "shutdown"
       => \A s \in Sessions : readyState'[s] # "OPEN"]_vars

\* C29: text control frames are informational only: the handling of a text
\* frame leaves the session's deviceId, the registry, the mailbox and the
\* adapter (live channel, frames passed to it, accumulator, flush calls,
\* timer) as they were.
C29_TextFramesInformational ==
  [][lastEvent'.type = "text"
       => UNCHANGED << wsDeviceId, deviceConnections, deviceResults,
                       deepgramConnection, dgSent, audioBuffer, calls,
                       processingInterval, readyState >>]_vars

\* C30: a manual clear discards unconditionally: after clear(d) the slot of d
\* is empty and the slots of the other devices are as they were, so a clear
\* of a device with no pending entry changes nothing; an empty slot is filled
\* only by a set for its device; and a take for a device whose slot is empty
\* returns absent.
C30_ClearDiscards ==
  /\ [][\A d \in Devices : lastEvent' = Event("clear", d) =>
          /\ ~MapHas(deviceResults', d)
          /\ \A e \in Devices \ {d} :
               /\ MapHas(deviceResults', e) = MapHas(deviceResults, e)
               /\ MapHas(deviceResults, e) => deviceResults'[e] = deviceResults[e]
          /\ ~MapHas(deviceResults, d) => deviceResults' = deviceResults]_vars
  /\ [][\A d \in Devices :
          (~MapHas(deviceResults, d) /\ MapHas(deviceResults', d))
          => (Len(writes') = Len(writes) + 1 /\ writes'[Len(writes')] = d)]_vars
  /\ [][\A d \in Devices :
          (/\ ~MapHas(deviceResults, d)
           /\ lastEvent'.type \in TakeTypes
           /\ lastEvent'.who = d)
          => lastEvent'.stamp = 0]_vars

\* a result was set for a device and never delivered, and a status poll of
\* the device has just returned absent: the result had been cleared
C30_Witness ==
  \E d \in Devices :
    /\ writes = << d >>
    /\ deliveries = << 0 >>
    /\ lastEvent = TakeEvent("status", d, 0, 0)

\* the fields of a polling hit
ResultFields ==
  {"triggered", "transcription", "confidence", "triggeredWords", "timestamp"}

\* C31: every result stored in the mailbox, whichever path wrote it (streaming
\* session, buffered flush, upload), carries triggered = true together with
\* transcription, confidence, triggeredWords and timestamp.
C31_StoredResultHasAllFields ==
  \A d \in DOMAIN deviceResults :
    /\ ResultFields \subseteq DOMAIN deviceResults[d]
    /\ deviceResults[d].triggered = TRUE

\* C32: closing a buffered session stops its adapter: once the connection of
\* a session is closed its timer is cancelled, no step starts a new provider
\* call for it, and what its accumulator held at the close stays there and is
\* never submitted.
C32_CloseStopsBufferedAdapter ==
  /\ [](\A s \in Sessions : readyState[s] = "CLOSED" => ~processingInterval[s])
  /\ [][\A s \in Sessions : readyState[s] = "CLOSED" =>
          /\ Len(calls'[s]) = Len(calls[s])
          /\ audioBuffer'[s] = audioBuffer[s]]_vars

\* the session was closed with its second frame accumulated and not flushed;
\* the timer callback has not run since its one call, which has resolved
C32_Witness ==
  \E s \in Sessions :
    /\ readyState[s] = "CLOSED"
    /\ audioBuffer[s] = <<2>>
    /\ calls[s] = << [window |-> <<1>>, status |-> "resolved"] >>

\* the descriptors of kind kind that the detection returned for trigger word t
DescriptorsOf(t, kind) ==
  SelectSeq(uploadTriggeredWords, LAMBDA d : d.trigger = t /\ d.kind = kind)

\* the trigger word at position k as the detection compares it
Trimmed(k) == toLowerCase(trim(TRIGGER_WORDS[k]))

\* C33: the exact match short-circuits: for a trigger word contained in the
\* lower-cased transcript the detection returns exactly one descriptor, the
\* plain word, and no substring and no fuzzy descriptor.
C33_ExactShortCircuits ==
  "triggeredWords" \in returned =>
    \A k \in DOMAIN TRIGGER_WORDS :
      includes(toLowerCase(transcript), Trimmed(k)) =>
        /\ Len(DescriptorsOf(Trimmed(k), "exact")) = 1
        /\ DescriptorsOf(Trimmed(k), "matched") = <<>>
        /\ DescriptorsOf(Trimmed(k), "fuzzy") = <<>>

\* the detection has run on "there is a fire here" with the default words and
\* returned the one exact match on "fire"
C33_Witness ==
  /\ TRIGGER_WORDS = DefaultTriggerWords
  /\ transcript = <<"t","h","e","r","e"," ","i","s"," ","a"," ",
                    "f","i","r","e"," ","h","e","r","e">>
  /\ "triggeredWords" \in returned
  /\ uploadTriggeredWords = << [kind |-> "exact", trigger |-> <<"f","i","r","e">>] >>

\* C34: for a trigger word not contained in the transcript the substring and
\* the fuzzy strategy are evaluated independently: the word contributes one
\* substring descriptor, for the first qualifying transcript word, exactly when
\* there is one, and one fuzzy descriptor, for the first transcript word with
\* a score of at least 0.70, exactly when there is one; both when both exist.
C34_SubstringAndFuzzyIndependent ==
  "triggeredWords" \in returned =>
    \A k \in DOMAIN TRIGGER_WORDS :
      LET t == Trimmed(k)
          words == splitWords(toLowerCase(transcript))
          Qualifies(word) == /\ includes(word, t) \/ includes(t, word)
                             /\ Len(word) >= 2 /\ Len(t) >= 2
          Scores(word) == /\ Len(word) >= 3 /\ Len(t) >= 3
                          /\ SimilarityAtLeast70(calculateSimilarity(word, t))
          q == FirstIndex(words, Qualifies)
          s == FirstIndex(words, Scores)
      IN  ~includes(toLowerCase(transcript), t) =>
            /\ DescriptorsOf(t, "exact") = <<>>
            /\ Len(DescriptorsOf(t, "matched")) = (IF q = 0 THEN 0 ELSE 1)
            /\ q # 0 => DescriptorsOf(t, "matched")[1].word = words[q]
            /\ Len(DescriptorsOf(t, "fuzzy")) = (IF s = 0 THEN 0 ELSE 1)
            /\ s # 0 => DescriptorsOf(t, "fuzzy")[1].word = words[s]

\* the detection has run on "hel" with the default words: "help" contributed
\* a substring descriptor and a fuzzy descriptor (score 0.8), both for "hel"
C34_Witness ==
  /\ TRIGGER_WORDS = DefaultTriggerWords
  /\ transcript = <<"h","e","l">>
  /\ "triggeredWords" \in returned
  /\ uploadTriggeredWords =
       << [kind |-> "matched", trigger |-> <<"h","e","l","p">>, word |-> <<"h","e","l">>],
          [kind |-> "fuzzy", trigger |-> <<"h","e","l","p">>, word |-> <<"h","e","l">>,
           percent |-> 80] >>

\* C35: a substring descriptor is returned only for a transcript word that is
\* contained in the trigger word: a transcript word that contains the trigger
\* word never gets one, the exact match on the whole transcript having taken
\* the trigger word first.
C35_SubstringOnlyWordInTrigger ==
  "triggeredWords" \in returned =>
    \A i \in DOMAIN uploadTriggeredWords :
      uploadTriggeredWords[i].kind = "matched" =>
        /\ includes(uploadTriggeredWords[i].trigger, uploadTriggeredWords[i].word)
        /\ ~includes(uploadTriggeredWords[i].word, uploadTriggeredWords[i].trigger)

\* the detection has run on "an ala alarn arm" with the default words: "alarm"
\* got a substring descriptor for "ala", the first word it contains, and a
\* fuzzy descriptor for "alarn"
C35_Witness ==
  /\ TRIGGER_WORDS = DefaultTriggerWords
  /\ transcript = <<"a","n"," ","a","l","a"," ","a","l","a","r","n"," ","a","r","m">>
  /\ "triggeredWords" \in returned
  /\ \E i \in DOMAIN uploadTriggeredWords :
       /\ uploadTriggeredWords[i].kind = "matched"
       /\ uploadTriggeredWords[i].trigger = <<"a","l","a","r","m">>
       /\ uploadTriggeredWords[i].word = <<"a","l","a">>
  /\ \E i \in DOMAIN uploadTriggeredWords :
       /\ uploadTriggeredWords[i].kind = "fuzzy"
       /\ uploadTriggeredWords[i].word = <<"a","l","a","r","n">>

\* what a session sends for the transcript it has handled in this step, text
\* being one it acts on (Acts): exactly one frame when its connection is open,
\* the ALARM frame if the step wrote the mailbox and the transcription frame
\* otherwise; nothing when the connection is not open or the text is not one
\* it acts on
SendsOneFrameIf(Acts(_)) ==
  lastEvent'.type = "transcript" =>
    LET s == lastEvent'.who
        text == lastEvent'.text
        confidence == lastEvent'.confidence
    IN  IF Acts(text) /\ readyState[s] = "OPEN"
        THEN outbox' = [outbox EXCEPT ![s] =
               Append(@, IF writes' # writes
                         THEN AlarmFrame(text, confidence)
                         ELSE TranscriptionFrame(text, confidence))]
        ELSE outbox' = outbox

NonEmpty(text) == Len(text) > 0

\* C36 as stated: for each non-empty transcript a session sends exactly one
\* frame when the connection is open (ALARM if triggered, otherwise a
\* transcription frame, never both) and nothing when it is not open.
C36_OneFramePerNonEmptyTranscript == [][SendsOneFrameIf(NonEmpty)]_vars

\* C36, amended: for each transcript that is neither empty nor white space
\* only a session sends exactly one frame when the connection is open (ALARM
\* if triggered, otherwise a transcription frame, never both); it sends
\* nothing when the connection is not open, and nothing for an empty or
\* white-space-only transcript.
C36_OneFramePerNonBlankTranscript == [][SendsOneFrameIf(NonBlank)]_vars

\* a session sent the transcription frame for "hi" while open, and has, after
\* its close, handled the transcript "Fire!": the result is stored and no
\* frame was sent for it
C36_Witness ==
  \E s \in Sessions :
    /\ lastEvent = TranscriptEvent(s, [text |-> <<"F","i","r","e","!">>, confidence |-> 95])
    /\ readyState[s] = "CLOSED"
    /\ outbox[s] = << TranscriptionFrame(<<"h","i">>, 90) >>
    /\ writes = << wsDeviceId[s] >>

\* C37: authentication gates the internal consumers: a heartbeat or internal
\* status request whose device key is missing or wrong is rejected with 401
\* and leaves the mailbox as it was; so an authorised heartbeat or internal
\* status request returns exactly the result that is pending for its device.
C37_AuthGatesInternalConsumers ==
  /\ [][\A d \in Devices : \A k \in DeviceKeys \ {DEVICE_KEY} :
          (Heartbeat(d, k) \/ InternalStatus(d, k))
          => /\ lastEvent' \in {Event("heartbeat401", d), Event("internalStatus401", d)}
             /\ UNCHANGED << deviceResults, pending, deliveries >>]_vars
  /\ [][lastEvent'.type \in {"heartbeat401", "internalStatus401"}
          => UNCHANGED << deviceResults, pending, deliveries >>]_vars
  /\ [](lastEvent.type \in {"heartbeat", "internalStatus"}
          => lastEvent.stamp = lastEvent.expected)

\* an internal status request for a device has just been rejected while a
\* result, never delivered, is pending for the device
C37_Witness ==
  \E d \in Devices :
    /\ lastEvent = Event("internalStatus401", d)
    /\ MapHas(deviceResults, d)
    /\ pending[d] = 1
    /\ deliveries = << 0 >>

=============================================================================
